---------------------------- MODULE Spec2Model ----------------------------
(***************************************************************************)
(* A model of swfparse.py: the bit cursor and the primitive decoders as    *)
(* operators, and SWFData.__init__ (header, then the tag loop) as a state  *)
(* machine over one input buffer.  A Python exception is the "err" field   *)
(* of a decoder's result; a buffer is a sequence of bytes, so the Python   *)
(* index i is the TLA+ index i + 1.                                        *)
(***************************************************************************)
EXTENDS Integers, Sequences, FiniteSets, TLC

VARIABLES
    types_by_num,  \* Tag._types_by_num: type_num -> class name
    nreg,          \* number of classes defined after the module's own
    data,          \* the buffer given to SWFData
    pc,            \* position of the constructor
    pos,           \* the bit cursor (local pos of __init__ / Header.parse)
    header,        \* the Header object (its attributes set so far)
    self_attrs,    \* attributes set on the SWFData object
    tags,          \* self.tags
    err,           \* the exception the constructor raised, or "none"
    hi,            \* highest byte index any read touched (-1: none)
    calls          \* one entry per Tag.parse call that returned

vars == <<types_by_num, nreg, data, pc, pos, header, self_attrs, tags, err,
          hi, calls>>

----------------------------------------------------------------------------
(* Bounds of the model. *)

\* most tag chunks in a generated buffer
MaxTags == 2

\* most classes registered after the module's own
MaxReg == 1

----------------------------------------------------------------------------
(* Integer helpers for Python's <<, >>, & and |. *)

Max(a, b) == IF a >= b THEN a ELSE b

Min(a, b) == IF a <= b THEN a ELSE b

Pow2(n) == 2 ^ n

ShiftLeft(a, n) == a * Pow2(n)

ShiftRight(a, n) == a \div Pow2(n)

\* x & y and x | y of two bytes, bit by bit
RECURSIVE BitAnd8(_, _)
BitAnd8(x, y) ==
    IF x = 0 \/ y = 0 THEN 0
    ELSE (IF x % 2 = 1 /\ y % 2 = 1 THEN 1 ELSE 0)
         + 2 * BitAnd8(x \div 2, y \div 2)

RECURSIVE BitOr8(_, _)
BitOr8(x, y) ==
    IF x = 0 THEN y
    ELSE IF y = 0 THEN x
    ELSE (IF x % 2 = 1 \/ y % 2 = 1 THEN 1 ELSE 0)
         + 2 * BitOr8(x \div 2, y \div 2)

\* a & b and a | b of two non-negative integers, byte by byte
RECURSIVE BitAnd(_, _)
BitAnd(a, b) ==
    IF a = 0 \/ b = 0 THEN 0
    ELSE BitAnd8(a % 256, b % 256) + 256 * BitAnd(a \div 256, b \div 256)

RECURSIVE BitOr(_, _)
BitOr(a, b) ==
    IF a = 0 THEN b
    ELSE IF b = 0 THEN a
    ELSE BitOr8(a % 256, b % 256) + 256 * BitOr(a \div 256, b \div 256)

\* data[start:stop] of Python, for any integers start and stop
PySlice(s, start, stop) ==
    LET L  == Len(s)
        lo == IF start < 0 THEN Max(start + L, 0) ELSE Min(start, L)
        up == IF stop < 0 THEN Max(stop + L, 0) ELSE Min(stop, L)
    IN  IF lo < up THEN [i \in 1..(up - lo) |-> s[lo + i]] ELSE <<>>

\* a decoder's result: the value and the new position, or the exception
Ok(v, p, h) == [err |-> "none", val |-> v, pos |-> p, hi |-> h]

Raise(e, p, h) == [err |-> e, val |-> 0, pos |-> p, hi |-> h]

----------------------------------------------------------------------------
(* The bit cursor. *)

byte_align(p) == ((p + 7) \div 8) * 8

get_bit(d, p) ==
    LET byte_index == p \div 8
        bit_index  == p % 8
    IN  IF byte_index >= Len(d)
        THEN Raise("IndexError", p, byte_index)
        ELSE Ok(BitAnd(ShiftRight(d[byte_index + 1], 7 - bit_index), 1),
                p + 1, byte_index)

\* get_byte returning 0 past the end instead of raising
get_byte_clamped(d, p) ==
    IF p % 8 # 0 THEN Raise("ValueError", p, -1)
    ELSE IF p \div 8 >= Len(d) THEN Ok(0, p + 8, p \div 8)
    ELSE Ok(d[(p \div 8) + 1], p + 8, p \div 8)

get_byte(d, p) ==
    IF p % 8 # 0 THEN Raise("ValueError", p, -1)
    ELSE IF p \div 8 >= Len(d) THEN Raise("IndexError", p, p \div 8)
    ELSE Ok(d[(p \div 8) + 1], p + 8, p \div 8)

parse_bytes(d, p, num_bytes) ==
    IF p % 8 # 0 THEN Raise("ValueError", p, -1)
    ELSE LET slice == PySlice(d, p \div 8, (p \div 8) + num_bytes)
         IN  Ok(slice, p + 8 * num_bytes,
                IF slice = <<>> THEN -1 ELSE (p \div 8) + Len(slice) - 1)

----------------------------------------------------------------------------
(* The primitive decoders. *)

\* "x = e; F(x)": e is evaluated once and F sees its value
Bind(e, F(_)) == CHOOSE y \in {F(x) : x \in {e}} : TRUE

\* as_signed: the value, or the ValueError of a negative shift count
as_signed(num, num_bits) ==
    IF num_bits - 1 < 0 THEN [err |-> "ValueError", val |-> 0]
    ELSE IF BitAnd(num, ShiftLeft(1, num_bits - 1)) # 0
         THEN [err |-> "none", val |-> num - ShiftLeft(1, num_bits)]
         ELSE [err |-> "none", val |-> num]

\* one iteration of the loop of parse_ub on the loop's state acc (result,
\* position, highest byte read): "bit, pos = get_bit(data, pos);
\* result = (2 * result) + bit"
parse_ub_step(d, acc) ==
    LET b == get_bit(d, acc.pos)
    IN  IF b.err # "none" THEN Raise(b.err, b.pos, Max(acc.hi, b.hi))
        ELSE Ok((2 * acc.val) + b.val, b.pos, Max(acc.hi, b.hi))

\* k more iterations from the state acc; each iteration's state s is
\* computed once, and an exception leaves the loop
RECURSIVE parse_ub_loop(_, _, _)
parse_ub_loop(d, k, acc) ==
    IF k = 0 THEN acc
    ELSE CHOOSE r \in {IF s.err # "none" THEN s
                       ELSE parse_ub_loop(d, k - 1, s) :
                       s \in {parse_ub_step(d, acc)}} : TRUE

parse_ub(d, p, num_bits) == parse_ub_loop(d, num_bits, Ok(0, p, -1))

parse_sb(d, p, num_bits) ==
    Bind(parse_ub(d, p, num_bits), LAMBDA ub :
        IF ub.err # "none" THEN ub
        ELSE LET s == as_signed(ub.val, num_bits)
             IN  IF s.err # "none" THEN Raise(s.err, ub.pos, ub.hi)
                 ELSE Ok(s.val, ub.pos, ub.hi))

\* one iteration of the loop of parse_uint on the loop's state acc:
\* "byte, pos = get_byte(data, pos); result |= byte << (8 * byte_index)"
parse_uint_step(d, byte_index, acc) ==
    LET b == get_byte(d, acc.pos)
    IN  IF b.err # "none" THEN Raise(b.err, b.pos, Max(acc.hi, b.hi))
        ELSE Ok(BitOr(acc.val, ShiftLeft(b.val, 8 * byte_index)), b.pos,
                Max(acc.hi, b.hi))

\* the iterations byte_index .. num_bytes - 1 from the state acc
RECURSIVE parse_uint_loop(_, _, _, _)
parse_uint_loop(d, byte_index, num_bytes, acc) ==
    IF byte_index = num_bytes THEN acc
    ELSE CHOOSE r \in {IF s.err # "none" THEN s
                       ELSE parse_uint_loop(d, byte_index + 1, num_bytes, s) :
                       s \in {parse_uint_step(d, byte_index, acc)}} : TRUE

parse_uint(d, p, num_bytes) ==
    IF p < 0 THEN Raise("ValueError", p, -1)
    ELSE parse_uint_loop(d, 0, num_bytes, Ok(0, byte_align(p), -1))

parse_ui8(d, p) == parse_uint(d, p, 1)

parse_ui16(d, p) == parse_uint(d, p, 2)

parse_ui32(d, p) == parse_uint(d, p, 4)

parse_si16(d, p) ==
    Bind(parse_ui16(d, p), LAMBDA u :
        IF u.err # "none" THEN u
        ELSE Ok(as_signed(u.val, 16).val, u.pos, u.hi))

\* si16 / 2**8, kept exact as <<numerator, denominator>>
parse_fixed8(d, p) ==
    Bind(parse_si16(d, p), LAMBDA s :
        IF s.err # "none" THEN s ELSE Ok(<<s.val, 256>>, s.pos, s.hi))

----------------------------------------------------------------------------
(* Rect and Header. *)

\* "r = e; F(r)" for a decoder's result e: e's exception if it raised,
\* else F(r) with the reads of both
Then(e, F(_)) ==
    CHOOSE y \in {IF r.err # "none" THEN r
                  ELSE [F(r) EXCEPT !.hi = IF @ >= r.hi THEN @ ELSE r.hi] :
                  r \in {e}} : TRUE

Rect_parse(d, p) ==
    Then(parse_ub(d, p, 5), LAMBDA nb :
    Then(parse_sb(d, nb.pos, nb.val), LAMBDA a :
    Then(parse_sb(d, a.pos, nb.val), LAMBDA b :
    Then(parse_sb(d, b.pos, nb.val), LAMBDA c :
    Then(parse_sb(d, c.pos, nb.val), LAMBDA e :
        Ok([x_min |-> a.val, x_max |-> b.val,
            y_min |-> c.val, y_max |-> e.val], e.pos, e.hi))))))

\* the character codes of 'W', 'S', 'F', 'C', 'Z'
Ord == [W |-> 87, S |-> 83, F |-> 70, C |-> 67, Z |-> 90]

\* chr(byte): a one-character string, kept as its sequence of code points
chr(b) == <<b>>

\* Header.__init__: the compression kind ("none" is Python's None), or the
\* exception.  The last branch formats its message with the undefined
\* name "header", which raises NameError before the ValueError is built.
Header_init(signature) ==
    LET actual_ending   == Tail(signature)
        expected_ending == <<Ord.W, Ord.S>>
    IN  IF actual_ending # expected_ending
        THEN [err |-> "ValueError", compression |-> "unset"]
        ELSE IF signature[1] = Ord.F
             THEN [err |-> "none", compression |-> "none"]
        ELSE IF signature[1] = Ord.C
             THEN [err |-> "none", compression |-> "zlib"]
        ELSE IF signature[1] = Ord.Z
             THEN [err |-> "none", compression |-> "lzma"]
        ELSE [err |-> "NameError", compression |-> "unset"]

\* Header.parse, lines 154-157
Header_parse_signature(d, p) ==
    Then(parse_ui8(d, p), LAMBDA b1 :
    Then(parse_ui8(d, b1.pos), LAMBDA b2 :
    Then(parse_ui8(d, b2.pos), LAMBDA b3 :
        LET sig == chr(b1.val) \o chr(b2.val) \o chr(b3.val)
            h   == Header_init(sig)
        IN  IF h.err # "none" THEN Raise(h.err, b3.pos, b3.hi)
            ELSE Ok([signature |-> sig, compression |-> h.compression],
                    b3.pos, b3.hi))))

\* Header.parse, lines 159-160
Header_parse_fixed(d, p) ==
    Then(parse_ui8(d, p), LAMBDA v :
    Then(parse_ui32(d, v.pos), LAMBDA fl :
        Ok([version |-> v.val, file_length |-> fl.val], fl.pos, fl.hi)))

\* Header.parse, lines 163-165
Header_parse_frame(d, p) ==
    Then(Rect_parse(d, p), LAMBDA fs :
    Then(parse_fixed8(d, fs.pos), LAMBDA fr :
    Then(parse_ui16(d, fr.pos), LAMBDA fc :
        Ok([frame_size |-> fs.val, frame_rate |-> fr.val,
            frame_count |-> fc.val], fc.pos, fc.hi))))

\* "if header.compression is None" of Header.parse
HeaderDecodesFrame_always(compression) == TRUE

HeaderDecodesFrame(compression) == compression = "none"

\* "if self.header.compression is None" of SWFData.__init__
DecodesTags(compression) == compression = "none"

\* the Header object before any attribute is set
NoHeader ==
    [attrs |-> {}, signature |-> <<>>, compression |-> "unset",
     version |-> 0, file_length |-> 0,
     frame_size |-> [x_min |-> 0, x_max |-> 0, y_min |-> 0, y_max |-> 0],
     frame_rate |-> <<0, 256>>, frame_count |-> 0]

----------------------------------------------------------------------------
(* The tag registry. *)

\* Tag.__init_subclass__: _types_by_num[num] = cls
Tag_init_subclass(reg, num, cls) ==
    [n \in (DOMAIN reg) \cup {num} |-> IF n = num THEN cls ELSE reg[n]]

\* the registry once the module is imported: its "class X(Tag, num=n)"
\* statements, lines 204-321
ModuleRegistry ==
    0 :> "End" @@ 1 :> "ShowFrame" @@ 2 :> "DefineShape"
    @@ 4 :> "PlaceObject" @@ 5 :> "RemoveObject" @@ 6 :> "DefineBits"
    @@ 7 :> "DefineButton" @@ 8 :> "JPEGTables"
    @@ 9 :> "SetBackgroundColor" @@ 10 :> "DefineFont"
    @@ 11 :> "DefineText" @@ 12 :> "DoAction" @@ 13 :> "DefineFontInfo"
    @@ 14 :> "DefineSound" @@ 15 :> "StartSound"
    @@ 17 :> "DefineButtonSound" @@ 18 :> "SoundStreamHead"
    @@ 19 :> "SoundStreamBlock" @@ 20 :> "DefineBitsLossless"
    @@ 21 :> "DefineBitsJPEG2" @@ 22 :> "DefineShape2"
    @@ 23 :> "DefineButtonCxform" @@ 24 :> "Protect"
    @@ 26 :> "PlaceObject2" @@ 28 :> "RemoveObject2"
    @@ 32 :> "DefineShape3" @@ 33 :> "DefineText2"
    @@ 34 :> "DefineButton2" @@ 35 :> "DefineBitsJPEG3"
    @@ 36 :> "DefineBitsLossless2" @@ 37 :> "DefineEditText"
    @@ 39 :> "DefineSprite" @@ 43 :> "FrameLabel"
    @@ 45 :> "SoundStreamHead2" @@ 46 :> "DefineMorphShape"
    @@ 48 :> "DefineFont2" @@ 56 :> "ExportAssets"
    @@ 57 :> "ImportAssets" @@ 58 :> "EnableDebugger"
    @@ 59 :> "DoInitAction" @@ 60 :> "DefineVideoStream"
    @@ 61 :> "VideoFrame" @@ 62 :> "DefineFontInfo2"
    @@ 64 :> "EnableDebugger2" @@ 65 :> "ScriptLimits"
    @@ 66 :> "SetTabIndex" @@ 69 :> "FileAttributes"
    @@ 70 :> "PlaceObject3" @@ 71 :> "ImportAssets2"
    @@ 73 :> "DefineFontAlignZones" @@ 74 :> "CSMTextSettings"
    @@ 75 :> "DefineFont3" @@ 76 :> "SymbolClass" @@ 77 :> "Metadata"
    @@ 78 :> "DefineScalingGrid" @@ 82 :> "DoABC"
    @@ 83 :> "DefineShape4" @@ 84 :> "DefineMorphShape2"
    @@ 86 :> "DefineSceneAndFrameLabelData" @@ 87 :> "DefineBinaryData"
    @@ 88 :> "DefineFontName" @@ 89 :> "StartSound2"
    @@ 90 :> "DefineBitsJPEG4" @@ 91 :> "DefineFont4"
    @@ 93 :> "EnableTelemetry"

\* the classes that define their own _parse; every other one inherits
\* Tag._parse
OverridesParse(cls) == cls = "DefineSound"

----------------------------------------------------------------------------
(* Tags. *)

\* the value of an attribute "data" that was never assigned
NoData == [kind |-> "unset", bytes |-> <<>>, pos |-> 0]

\* Tag.__init__
Tag_init(cls, type_num, length) ==
    [cls |-> cls, type_num |-> type_num, length |-> length,
     attrs |-> {"type_num", "length"}, data |-> NoData,
     id |-> 0, format |-> "", sampling_rate |-> "", bits_per_sample |-> 0,
     channels |-> "", sample_count |-> 0]

\* Tag._parse: self.data is the pair parse_bytes returns, not its slice
Tag__parse(tag, d, p) ==
    Bind(parse_bytes(d, p, tag.length), LAMBDA r :
        IF r.err # "none"
        THEN [err |-> r.err, tag |-> tag, hi |-> r.hi, peak |-> p]
        ELSE [err |-> "none",
              tag |-> [tag EXCEPT !.attrs = @ \cup {"data"},
                           !.data = [kind |-> "tuple", bytes |-> r.val,
                                     pos |-> r.pos]],
              hi |-> r.hi, peak |-> p])

DefineSound_formats ==
    0 :> "uncompressed native-endian" @@ 1 :> "ADPCM" @@ 2 :> "MP3"
    @@ 3 :> "uncompressed little-endian" @@ 4 :> "Nellymoser 16 kHz"
    @@ 5 :> "Nellymoser 8 kHz" @@ 6 :> "Nellymoser" @@ 11 :> "Speex"

DefineSound_sampling_rates ==
    0 :> "5512.5" @@ 1 :> "11025" @@ 2 :> "22050" @@ 3 :> "44100"

DefineSound_bits_per_sample == 0 :> 8 @@ 1 :> 16

DefineSound_channels == 0 :> "mono" @@ 1 :> "stereo"

\* the tail read of a decoder that refuses a negative data_length
parse_tail_checked(d, p, data_length) ==
    IF data_length < 0 THEN Raise("MalformedTag", p, -1)
    ELSE parse_bytes(d, p, data_length)

\* DefineSound._parse, line 268
parse_tail(d, p, data_length) == parse_bytes(d, p, data_length)

\* a table lookup table[key]: the value, or the KeyError
Lookup(table, key, p, h) ==
    IF key \in DOMAIN table THEN Ok(table[key], p, h)
    ELSE Raise("KeyError", p, h)

\* DefineSound._parse, lines 253-257: format and sampling_rate
DefineSound_format_rate(d, p) ==
    Then(parse_ub(d, p, 4), LAMBDA fn :
    Then(Lookup(DefineSound_formats, fn.val, fn.pos, fn.hi),
         LAMBDA fmt :
    Then(parse_ub(d, fn.pos, 2), LAMBDA sn :
    Then(Lookup(DefineSound_sampling_rates, sn.val, sn.pos, sn.hi),
         LAMBDA sr :
        Ok([format |-> fmt.val, sampling_rate |-> sr.val],
           sn.pos, sn.hi)))))

\* DefineSound._parse, lines 259-263: bits_per_sample and channels
DefineSound_bits_channels(d, p) ==
    Then(parse_ub(d, p, 1), LAMBDA bn :
    Then(Lookup(DefineSound_bits_per_sample, bn.val, bn.pos, bn.hi),
         LAMBDA bp :
    Then(parse_ub(d, bn.pos, 1), LAMBDA cn :
    Then(Lookup(DefineSound_channels, cn.val, cn.pos, cn.hi),
         LAMBDA ch :
        Ok([bits_per_sample |-> bp.val, channels |-> ch.val],
           cn.pos, cn.hi)))))

\* DefineSound._parse, lines 249-268: the tag with its fields set, and the
\* position after the fixed fields
DefineSound_fields(tag, d, p) ==
    Then(parse_ui16(d, p), LAMBDA id :
    Then(DefineSound_format_rate(d, id.pos), LAMBDA fr :
    Then(DefineSound_bits_channels(d, fr.pos), LAMBDA bc :
    Then(parse_ui32(d, bc.pos), LAMBDA sc :
    LET data_length == tag.length - ((sc.pos - p) \div 8) IN
    Then(parse_tail(d, sc.pos, data_length), LAMBDA tl :
        Ok([tag EXCEPT
               !.attrs = @ \cup {"id", "format", "sampling_rate",
                                 "bits_per_sample", "channels",
                                 "sample_count", "data"},
               !.id = id.val,
               !.format = fr.val.format,
               !.sampling_rate = fr.val.sampling_rate,
               !.bits_per_sample = bc.val.bits_per_sample,
               !.channels = bc.val.channels,
               !.sample_count = sc.val,
               !.data = [kind |-> "bytes", bytes |-> tl.val, pos |-> 0]],
           sc.pos, tl.hi))))))

\* DefineSound._parse
DefineSound__parse(tag, d, p) ==
    Bind(DefineSound_fields(tag, d, p), LAMBDA r :
        [err |-> r.err, tag |-> IF r.err = "none" THEN r.val ELSE tag,
         hi |-> r.hi, peak |-> IF r.err = "none" THEN r.pos ELSE p])

\* "return tag, pos + 8 * length" without the factor 8
TagEnd_unscaled(start, framed, length) == framed + length

\* "return tag, pos + 8 * length" counted from the tag's first byte
TagEnd_from_start(start, framed, length) == start + 8 * length

\* Tag.parse, line 201: the position handed back to the caller
TagEnd(start, framed, length) == framed + 8 * length

\* the mask of the short length, and the value that escapes to the long form
ShortLengthMask == 63

\* Tag.parse
Tag_parse(reg, d, p) ==
    Bind(parse_ui16(d, p), LAMBDA tl :
    IF tl.err # "none"
    THEN [err |-> tl.err, tag |-> Tag_init("Tag", 0, 0), pos |-> p,
          hi |-> tl.hi, framed |-> p, peak |-> p]
    ELSE
    LET type_num == ShiftRight(tl.val, 6)
        short    == BitAnd(tl.val, ShortLengthMask)
    IN
    Bind(IF short = ShortLengthMask THEN parse_ui32(d, tl.pos)
         ELSE Ok(short, tl.pos, tl.hi), LAMBDA long :
    IF long.err # "none"
    THEN [err |-> long.err, tag |-> Tag_init("Tag", 0, 0), pos |-> p,
          hi |-> Max(tl.hi, long.hi), framed |-> p, peak |-> p]
    ELSE
    LET cls == IF type_num \in DOMAIN reg THEN reg[type_num] ELSE "Tag" IN
    Bind(IF OverridesParse(cls)
         THEN DefineSound__parse(Tag_init(cls, type_num, long.val), d,
                                 long.pos)
         ELSE Tag__parse(Tag_init(cls, type_num, long.val), d, long.pos),
         LAMBDA body :
        [err |-> body.err, tag |-> body.tag,
         pos |-> IF body.err = "none" THEN TagEnd(p, long.pos, long.val)
                 ELSE p,
         hi |-> Max(Max(tl.hi, long.hi), body.hi),
         framed |-> long.pos, peak |-> body.peak])))

----------------------------------------------------------------------------
(* The buffers the constructor is run on: a signature, the fixed header    *)
(* fields, a frame rectangle, rate and count, then up to MaxTags tag       *)
(* chunks; and every prefix of such a buffer, so that a buffer may end     *)
(* anywhere.                                                               *)

Prefixes(s) == {SubSeq(s, 1, n) : n \in 0..Len(s)}

RECURSIVE Concat(_)
Concat(ss) == IF ss = <<>> THEN <<>> ELSE Head(ss) \o Concat(Tail(ss))

Signatures ==
    {<<Ord.F, Ord.W, Ord.S>>, <<Ord.C, Ord.W, Ord.S>>,
     <<Ord.Z, Ord.W, Ord.S>>, <<88, Ord.W, Ord.S>>,
     <<Ord.F, Ord.W, 88>>, <<Ord.C, 88, Ord.S>>}

\* version 6, file_length 0x00000100
FixedFields == <<6, 0, 1, 0, 0>>

\* width 0 | width 1: 0, -1, -1, -1 | width 2: 1, -2, -1, 0
RectWidth0 == <<0>>

RectWidth1 == <<11, 128>>

RectWidth2 == <<19, 96>>

\* frame_rate 12.0, frame_count 1
RateAndCount == <<0, 12, 1, 0>>

\* End | type 3 (unregistered), length 2 | DefineSound, length 8 (MP3) |
\* DefineSound, length 3 | DefineSound, length 7, format code 9 |
\* type 3, long form, length 3
Chunks ==
    {<<0, 0>>,
     <<194, 0, 17, 34>>,
     <<136, 3, 1, 0, 47, 4, 0, 0, 0, 99>>,
     <<131, 3, 1, 0, 47>>,
     <<135, 3, 1, 0, 144, 0, 0, 0, 0>>,
     <<255, 0, 3, 0, 0, 0, 5, 6, 7>>}

Tails ==
    UNION {{Concat(cs) : cs \in [1..n -> Chunks]} : n \in 0..MaxTags}

Buffers ==
    UNION ({Prefixes(<<Ord.F, Ord.W, Ord.S>> \o FixedFields \o RectWidth1
                     \o RateAndCount \o t) : t \in Tails}
           \cup {Prefixes(<<Ord.F, Ord.W, Ord.S>> \o FixedFields \o r
                          \o RateAndCount \o <<0, 0>>)
                 : r \in {RectWidth0, RectWidth2}}
           \cup {Prefixes(sg \o FixedFields \o RectWidth1 \o RateAndCount
                          \o <<0, 0>>) : sg \in Signatures})

\* the classes a user of the module defines: (num, class name)
UserNums == {14, 3}

UserClasses == {"UserTag"}

----------------------------------------------------------------------------
(* The state machine. *)

Init ==
    /\ types_by_num = ModuleRegistry
    /\ nreg = 0
    /\ data \in Buffers
    /\ pc = "idle"
    /\ pos = 0
    /\ header = NoHeader
    /\ self_attrs = {}
    /\ tags = <<>>
    /\ err = "none"
    /\ hi = -1
    /\ calls = <<>>

\* class cls(Tag, num=num): ... , defined before the buffer is parsed
Register(num, cls) ==
    /\ pc = "idle"
    /\ nreg < MaxReg
    /\ types_by_num' = Tag_init_subclass(types_by_num, num, cls)
    /\ nreg' = nreg + 1
    /\ UNCHANGED <<data, pc, pos, header, self_attrs, tags, err, hi, calls>>

\* SWFData.__init__, line 326, and the call of Header.parse
Construct ==
    /\ pc = "idle"
    /\ pc' = "signature"
    /\ pos' = 0
    /\ UNCHANGED <<types_by_num, nreg, data, header, self_attrs, tags, err,
                   hi, calls>>

\* Header.parse, lines 154-157
ParseSignature ==
    /\ pc = "signature"
    /\ \E r \in {Header_parse_signature(data, pos)} :
           /\ hi' = Max(hi, r.hi)
           /\ IF r.err # "none"
              THEN /\ pc' = "raised"
                   /\ err' = r.err
                   /\ UNCHANGED <<pos, header>>
              ELSE /\ pc' = "fixed"
                   /\ pos' = r.pos
                   /\ header' = [header EXCEPT
                          !.attrs = @ \cup {"signature", "compression"},
                          !.signature = r.val.signature,
                          !.compression = r.val.compression]
                   /\ err' = err
    /\ UNCHANGED <<types_by_num, nreg, data, self_attrs, tags, calls>>

\* Header.parse, lines 159-162
ParseFixed ==
    /\ pc = "fixed"
    /\ \E r \in {Header_parse_fixed(data, pos)} :
           /\ hi' = Max(hi, r.hi)
           /\ IF r.err # "none"
              THEN /\ pc' = "raised"
                   /\ err' = r.err
                   /\ UNCHANGED <<pos, header>>
              ELSE /\ pc' = IF HeaderDecodesFrame(header.compression)
                            THEN "frame" ELSE "return"
                   /\ pos' = r.pos
                   /\ header' = [header EXCEPT
                          !.attrs = @ \cup {"version", "file_length"},
                          !.version = r.val.version,
                          !.file_length = r.val.file_length]
                   /\ err' = err
    /\ UNCHANGED <<types_by_num, nreg, data, self_attrs, tags, calls>>

\* Header.parse, lines 163-165
ParseFrame ==
    /\ pc = "frame"
    /\ \E r \in {Header_parse_frame(data, pos)} :
           /\ hi' = Max(hi, r.hi)
           /\ IF r.err # "none"
              THEN /\ pc' = "raised"
                   /\ err' = r.err
                   /\ UNCHANGED <<pos, header>>
              ELSE /\ pc' = "return"
                   /\ pos' = r.pos
                   /\ header' = [header EXCEPT
                          !.attrs = @ \cup {"frame_size", "frame_rate",
                                            "frame_count"},
                          !.frame_size = r.val.frame_size,
                          !.frame_rate = r.val.frame_rate,
                          !.frame_count = r.val.frame_count]
                   /\ err' = err
    /\ UNCHANGED <<types_by_num, nreg, data, self_attrs, tags, calls>>

\* Header.parse returns (line 167); SWFData.__init__, lines 327-330
HeaderReturn ==
    /\ pc = "return"
    /\ IF DecodesTags(header.compression)
       THEN /\ self_attrs' = {"header", "tags"}
            /\ pc' = "loop"
       ELSE /\ self_attrs' = {"header"}
            /\ pc' = "done"
    /\ tags' = <<>>
    /\ UNCHANGED <<types_by_num, nreg, data, pos, header, err, hi, calls>>

\* SWFData.__init__, lines 331-333: one turn of the loop
ParseTag ==
    /\ pc = "loop"
    /\ pos \div 8 < Len(data)
    /\ \E r \in {Tag_parse(types_by_num, data, pos)} :
           /\ hi' = Max(hi, r.hi)
           /\ IF r.err # "none"
              THEN /\ pc' = "raised"
                   /\ err' = r.err
                   /\ UNCHANGED <<pos, tags, calls>>
              ELSE /\ pc' = "loop"
                   /\ pos' = r.pos
                   /\ tags' = Append(tags, r.tag)
                   /\ calls' = Append(calls,
                          [start |-> pos, framed |-> r.framed,
                           peak |-> r.peak, ret |-> r.pos])
                   /\ err' = err
    /\ UNCHANGED <<types_by_num, nreg, data, header, self_attrs>>

\* SWFData.__init__, line 331: the loop condition is false
LoopExit ==
    /\ pc = "loop"
    /\ ~(pos \div 8 < Len(data))
    /\ pc' = "done"
    /\ UNCHANGED <<types_by_num, nreg, data, pos, header, self_attrs, tags,
                   err, hi, calls>>

Next ==
    \/ \E num \in UserNums, cls \in UserClasses : Register(num, cls)
    \/ Construct
    \/ ParseSignature
    \/ ParseFixed
    \/ ParseFrame
    \/ HeaderReturn
    \/ ParseTag
    \/ LoopExit

Spec == Init /\ [][Next]_vars

\* the constructor is one sequential call: once started it runs to its end
FairSpec == Spec /\ WF_vars(Next)

Finished == pc \in {"done", "raised"}

----------------------------------------------------------------------------
(* Vocabulary of the properties. *)

ValidSignature(d) ==
    /\ Len(d) >= 3
    /\ d[1] \in {Ord.F, Ord.C, Ord.Z}
    /\ d[2] = Ord.W
    /\ d[3] = Ord.S

CompressedSignature(d) == ValidSignature(d) /\ d[1] \in {Ord.C, Ord.Z}

DeclaredCompression(d) ==
    IF d[1] = Ord.F THEN "none" ELSE IF d[1] = Ord.C THEN "zlib" ELSE "lzma"

FixedAttrs == {"signature", "compression", "version", "file_length"}

FrameAttrs == {"frame_size", "frame_rate", "frame_count"}

\* the value SWFData(data) hands back: a header with every field of its
\* compression kind, and a tag list exactly when uncompressed
FullyConstructed ==
    /\ err = "none"
    /\ "header" \in self_attrs
    /\ header.compression = DeclaredCompression(data)
    /\ header.attrs = IF header.compression = "none"
                      THEN FixedAttrs \cup FrameAttrs ELSE FixedAttrs
    /\ ("tags" \in self_attrs) <=> (header.compression = "none")

\* the i-th decoded tag's framing, read off the buffer
FirstByte(i) == data[(calls[i].start \div 8) + 1]

IsLongForm(i) == FirstByte(i) % 64 = 63

\* the little-endian 32-bit value of the four bytes from byte index k
LittleEndian32(k) ==
    data[k + 1] + 256 * data[k + 2] + 65536 * data[k + 3]
    + 16777216 * data[k + 4]

DeclaredLength(i) ==
    IF IsLongForm(i) THEN LittleEndian32((calls[i].start \div 8) + 2)
    ELSE FirstByte(i) % 64

----------------------------------------------------------------------------
(* C1 as stated: with a valid signature, SWFData(data) never raises,       *)
(* whatever the length of the buffer.                                      *)
C1_NeverRaises == ValidSignature(data) => pc # "raised"

(* C1, amended: with a valid signature, SWFData(data) either returns a     *)
(* fully constructed value or raises IndexError (a read past the end of    *)
(* the buffer), ValueError (the frame rectangle, while the header is being *)
(* decoded) or KeyError (a DefineSound code, in the tag loop); it never    *)
(* returns a partly constructed value, and every buffer shorter than the 8 *)
(* bytes of the fixed header fields raises IndexError.                     *)
C1_ReturnsOrRaises ==
    (ValidSignature(data) /\ Finished) =>
        /\ pc = "done" => FullyConstructed
        /\ pc = "raised" =>
              /\ err \in {"IndexError", "ValueError", "KeyError"}
              /\ err = "ValueError" => "file_length" \in header.attrs
                                       /\ self_attrs = {}
              /\ err = "KeyError" => "tags" \in self_attrs
        /\ Len(data) < 8 => pc = "raised" /\ err = "IndexError"

\* a buffer with a valid signature that ends inside its second tag
C1_Witness ==
    /\ ValidSignature(data)
    /\ pc = "raised"
    /\ err = "IndexError"
    /\ Len(tags) = 1

----------------------------------------------------------------------------
(* C2: for every tag Tag.parse decoded, with either body decoder, the      *)
(* position it returned is the position after the framing plus 8 times the *)
(* declared length (the 6-bit short form, or the 32-bit long form when the *)
(* short form is 0x3F), and the next tag's framing is read from there.     *)
C2_TagEndPosition ==
    /\ Len(calls) = Len(tags)
    /\ \A i \in 1..Len(calls) :
          /\ calls[i].framed =
                calls[i].start + (IF IsLongForm(i) THEN 48 ELSE 16)
          /\ tags[i].length = DeclaredLength(i)
          /\ calls[i].ret = calls[i].framed + 8 * DeclaredLength(i)
          /\ i < Len(calls) => calls[i + 1].start = calls[i].ret
          /\ (i = Len(calls) /\ pc = "loop") => pos = calls[i].ret

\* a parse that decoded a long-form tag and a DefineSound tag
C2_Witness ==
    /\ pc = "done"
    /\ \E i \in 1..Len(calls) : IsLongForm(i)
    /\ \E j \in 1..Len(tags) : OverridesParse(tags[j].cls)

----------------------------------------------------------------------------
----------------------------------------------------------------------------
(* C4: every position the parse holds is at most 8 * len(buffer), and      *)
(* parse_bytes never hands back a slice shorter than the number of bytes   *)
(* asked for together with a position past the end.                        *)
C4_PositionInBuffer ==
    /\ pos >= 0
    /\ pos <= 8 * Len(data)
    /\ \A i \in 1..Len(calls) :
          /\ calls[i].ret <= 8 * Len(data)
          /\ ~OverridesParse(tags[i].cls) =>
                Len(tags[i].data.bytes) = tags[i].length

----------------------------------------------------------------------------
(* C5: a signature 'FWS', 'CWS' or 'ZWS' records compression none, zlib or *)
(* lzma; every other signature fails with the one InvalidFormat kind (the  *)
(* ValueError the ending check raises) and produces no header.             *)
C5_SignatureOutcome ==
    (Len(data) >= 3 /\ pc \notin {"idle", "signature"}) =>
        IF ValidSignature(data)
        THEN header.compression = DeclaredCompression(data)
        ELSE pc = "raised" /\ err = "ValueError" /\ header = NoHeader

----------------------------------------------------------------------------
(* C6: parse_sb with width 0 returns 0 and the position unchanged, at      *)
(* every position of the buffer; so Rect.parse on a width prefix of 0      *)
(* succeeds with four zeros and consumes exactly 5 bits.  Stated where the *)
(* header decoder is about to call Rect.parse on such a rectangle.         *)
C6_ZeroWidth ==
    (pc = "frame" /\ Len(data) > 8 /\ data[9] \div 8 = 0) =>
        /\ \A p \in 0..(8 * Len(data)) :
              parse_sb(data, p, 0) = Ok(0, p, -1)
        /\ \E r \in {Rect_parse(data, pos)} :
              /\ r.err = "none"
              /\ r.val = [x_min |-> 0, x_max |-> 0, y_min |-> 0, y_max |-> 0]
              /\ r.pos = pos + 5

----------------------------------------------------------------------------
(* C7: for a tag of an unregistered type with declared length N, tag.data  *)
(* is exactly the N bytes of the buffer that follow the tag's framing.     *)
C7_GenericBody ==
    \A i \in 1..Len(calls) :
        (tags[i].type_num \notin DOMAIN types_by_num
         /\ calls[i].ret <= 8 * Len(data)) =>
            /\ tags[i].data.kind = "bytes"
            /\ tags[i].data.bytes =
                  SubSeq(data, (calls[i].framed \div 8) + 1,
                         (calls[i].framed \div 8) + tags[i].length)

----------------------------------------------------------------------------
(* C8: registering a decoder for a type_num already in the registry fails  *)
(* and leaves the entry as it was: no step replaces the class of a         *)
(* registered type_num.                                                    *)
C8_NoSilentReplace ==
    [][\A n \in DOMAIN types_by_num : types_by_num'[n] = types_by_num[n]]_vars

----------------------------------------------------------------------------
(* C9 as stated: every buffer whose signature is 'CWS' or 'ZWS' parses to  *)
(* a container with a header of that compression kind and no tags.         *)
C9_CompressedParses ==
    (CompressedSignature(data) /\ Finished) =>
        /\ pc = "done"
        /\ header.compression = DeclaredCompression(data)
        /\ "tags" \notin self_attrs

(* C9, amended: for a buffer of at least 8 bytes whose signature is 'CWS'  *)
(* or 'ZWS', the parse returns a header of that compression kind and no    *)
(* tag list; a shorter one raises IndexError; and in both cases no byte    *)
(* beyond the 8 of the fixed header fields is read, frame_size, frame_rate *)
(* and frame_count are not decoded and Tag.parse is never invoked.         *)
C9_CompressedStopsAtFixedFields ==
    CompressedSignature(data) =>
        /\ hi <= 7
        /\ pos <= 64
        /\ pc \notin {"frame", "loop"}
        /\ header.attrs \cap FrameAttrs = {}
        /\ calls = <<>> /\ tags = <<>> /\ "tags" \notin self_attrs
        /\ Finished =>
              IF Len(data) >= 8
              THEN pc = "done" /\ FullyConstructed /\ pos = 64
              ELSE pc = "raised" /\ err = "IndexError"

\* a compressed buffer with bytes after its fixed header fields, parsed
C9_Witness ==
    /\ CompressedSignature(data)
    /\ pc = "done"
    /\ Len(data) > 8

----------------------------------------------------------------------------
(* C10: the tag loop terminates: every Tag.parse that returns started at a *)
(* byte-aligned position and returns a byte-aligned position at least 16   *)
(* bits further, the tags are in strictly increasing start order, at most  *)
(* len(data)/2 tags are decoded, and the constructor reaches its end.      *)
C10_Progress ==
    /\ Len(tags) = Len(calls)
    /\ 2 * Len(calls) <= Len(data)
    /\ \A i \in 1..Len(calls) :
          /\ calls[i].start % 8 = 0
          /\ calls[i].ret % 8 = 0
          /\ calls[i].ret >= calls[i].start + 16
          /\ i > 1 => calls[i].start > calls[i - 1].start

C10_LoopTerminates == []C10_Progress /\ <>Finished

\* a parse that decoded two tags and left the loop
C10_Witness == pc = "done" /\ Len(tags) >= 2

============================================================================
